---- MODULE Spec2Model ----
(***************************************************************************)
(* Credential lifecycle of the ZKP authentication backend: the register    *)
(* and login handlers of the router, the Issuer Node helpers they call,    *)
(* the credential verifier, and the in-memory users store.  Every handler  *)
(* is cut at its awaits on the Issuer Node: one action runs the code from  *)
(* one await to the next.                                                  *)
(***************************************************************************)
EXTENDS Integers, Sequences, FiniteSets, TLC

\* HTTP requests the server handles in one run.
MaxRequests == 2
\* Requests in flight at once.
MaxInFlight == 1

\* One slot per request of a run; the server works on MaxInFlight of them at once.
Slots == 1..MaxRequests
\* Every request creates at most one identity and one credential at the Issuer Node.
MaxIdentities == MaxRequests
MaxCreds == MaxRequests

VARIABLES usersStore, ISSUER_DID, boot, issuerIdentities, issuerCredentials, req, started

vars == <<usersStore, ISSUER_DID, boot, issuerIdentities, issuerCredentials, req, started>>

----------------------------------------------------------------------------
\* Values

\* A DID is <<"did", n>>; the absent DID (null / undefined) is <<>>.
NoDid == <<>>
UserDid(n) == <<"did", n>>
\* The Issuer Node's own identity, the first entry of GET /v2/identities.
IssuerOwnDid == <<"did", 0>>

\* A credential id: the vc carries "urn:uuid:<uuid>", the POST response the bare uuid.
NoId == [prefix |-> "", uuid |-> 0]
UrnId(n) == [prefix |-> "urn:uuid:", uuid |-> n]
RawId(n) == [prefix |-> "", uuid |-> n]

\* credential.id.replace('urn:uuid:', '')
StripUrn(id) == IF id.prefix = "urn:uuid:" THEN [id EXCEPT !.prefix = ""] ELSE id

NoSubject == [present |-> FALSE, id |-> NoDid]
NoType == [present |-> FALSE, tags |-> {}]

\* The response body of POST .../credentials: {id}, no other field.  isNull tells
\* null, whose properties cannot be read, from the other values.
CredentialRef(n) ==
    [id |-> RawId(n), type |-> NoType, issuer |-> NoDid, issuanceDate |-> FALSE,
     credentialSubject |-> NoSubject, proof |-> 0, isNull |-> FALSE, status |-> "none"]

\* A falsy credential that is not null: undefined in a response, '' (an empty
\* response body) in a variable.  Each of its properties reads as undefined.
NoCredential == CredentialRef(0)

\* credential = null
NullCredential == [NoCredential EXCEPT !.isNull = TRUE]

\* The W3C credential the Issuer Node reports for one of its records.
VcOf(n, c) ==
    [id |-> UrnId(n),
     type |-> [present |-> TRUE, tags |-> {"VerifiableCredential", "ZKPAuthCredential"}],
     issuer |-> c.issuer, issuanceDate |-> TRUE,
     credentialSubject |-> [present |-> TRUE, id |-> c.subject],
     proof |-> IF c.published THEN c.proofs ELSE 0, isNull |-> FALSE, status |-> "none"]

\* proofs: the length of the proof array the record carries once published.
NoIssuerCred == [exists |-> FALSE, issuer |-> NoDid, subject |-> NoDid,
                 revoked |-> FALSE, published |-> FALSE, proofs |-> 0]

NoHash == <<>>
\* sha256 of JSON.stringify(data), hex: one-way and injective on the inputs used.
hashData(data) == <<"sha256", data>>

NoUser == [found |-> FALSE, password |-> NoHash, did |-> NoDid,
           credential |-> NoCredential, zkpState |-> "none", zkpVerified |-> FALSE]

\* The answer to the lookup: status "ok" for a 2xx answer, whose body is the
\* record ("record"), null ("null") or an object without vc ("no_vc").
NoLookup == [status |-> "none", revoked |-> FALSE, vc |-> NoCredential, body |-> "none"]
\* A verdict: verified, stage, and what its details and rawData fields hold:
\* "none", "connection" (the error of the lookup), "summary" (extractProofInfo's
\* summary), "record" or "record_with_proof" (response.data as the Issuer Node
\* sent it, the latter with the proofs of a published credential in it).
\* proofs is the length of details.zkpProof.proofs.
NoVerdict == [set |-> FALSE, verified |-> FALSE, stage |-> "none",
              details |-> "none", rawData |-> "none", proofs |-> 0]
Verdict(v, s) == [NoVerdict EXCEPT !.set = TRUE, !.verified = v, !.stage = s]

\* carries: the verdict material and stored secrets copied into the body.
NoResp == [status |-> 0, success |-> FALSE, did |-> NoDid, credential |-> NoCredential,
           verified |-> FALSE, stage |-> "none", reason |-> "none", error |-> "none",
           carries |-> {}, zkpState |-> "none"]
Denial(st, err, stage, reason) ==
    [NoResp EXCEPT !.status = st, !.error = err, !.stage = stage, !.reason = reason]
Success(did, cred, verified) ==
    [NoResp EXCEPT !.status = 200, !.success = TRUE, !.did = did,
                   !.credential = cred, !.verified = verified]

----------------------------------------------------------------------------
\* Request inputs

Names == {"", "Ana Ruiz"}
Emails == {"", "ana-at-example", "ana@example.com", "Ana@Example.com"}
\* Passwords a principal registers with, and passwords tried at login.
Passwords == {"", "s3cr3t"}
LoginPasswords == Passwords \cup {"other"}

\* String.prototype.toLowerCase on the login keys used.
ToLowerCase(s) == IF s = "Ana@Example.com" THEN "ana@example.com" ELSE s

\* usersStore is a Map: any string can be a key of it.
StoreKeys == Emails

\* /^[^\s@]+@[^\s@]+\.[^\s@]+$/ on the login keys used.
validateEmail(email) == email \in {"ana@example.com", "Ana@Example.com"}

\* validateUserData(userData).isValid
validateUserData(fullName, authMethod) ==
    /\ fullName # ""
    /\ authMethod # ""
    /\ authMethod \in {"email", "wallet", "hybrid"}

----------------------------------------------------------------------------
\* The users store

getUser(email) == usersStore[ToLowerCase(email)]

\* Variant: the key is looked up as it was typed.
userExists_CaseSensitive(email) == usersStore[email].found

userExists(email) == usersStore[ToLowerCase(email)].found

\* Variant: the record is stored under the key as it was typed.
saveUser_CaseSensitive(email, userData) ==
    usersStore' = [usersStore EXCEPT ![email] = userData]

\* Variant: a record already stored under the key keeps its identity.
saveUser_KeepsIdentity(email, userData) ==
    usersStore' = [usersStore EXCEPT ![ToLowerCase(email)] =
                     IF @.found THEN [userData EXCEPT !.did = usersStore[ToLowerCase(email)].did]
                     ELSE userData]

saveUser(email, userData) ==
    usersStore' = [usersStore EXCEPT ![ToLowerCase(email)] = userData]

----------------------------------------------------------------------------
\* The verifier

\* Variant: the type only has to be present.
validateCredentialStructure_AnyType(credential) ==
    /\ ~credential.isNull
    /\ credential.id # NoId
    /\ credential.type.present
    /\ credential.issuer # NoDid
    /\ credential.issuanceDate
    /\ credential.credentialSubject.present
    /\ credential.credentialSubject.id # NoDid

validateCredentialStructure(credential) ==
    /\ ~credential.isNull
    /\ credential.id # NoId
    /\ credential.type.present
    /\ credential.issuer # NoDid
    /\ credential.issuanceDate
    /\ credential.credentialSubject.present
    /\ "VerifiableCredential" \in credential.type.tags
    /\ credential.credentialSubject.id # NoDid

\* Variant: the subject is not compared.
compareCredentialData_NoSubject(localCred, issuerCred) ==
    /\ localCred.id = issuerCred.id
    /\ localCred.issuer = issuerCred.issuer

compareCredentialData(localCred, issuerCred) ==
    /\ localCred.id = issuerCred.id
    /\ localCred.issuer = issuerCred.issuer
    /\ localCred.credentialSubject.id = issuerCred.credentialSubject.id

\* verifyCredentialWithIssuer up to its await: the verdict when it returns
\* before the lookup, NoVerdict when the lookup request is sent.  Reading
\* credential.id of null throws a TypeError, which the outer catch turns into
\* the stage general_error.
\* A call that ended with an exception: no verdict is returned.
Thrown == [NoVerdict EXCEPT !.stage = "thrown"]

\* Variant: without the outer try/catch the TypeError of a null credential
\* leaves the function.
verifyBeforeLookup_NoOuterCatch(credential) ==
    IF credential.isNull
    THEN Thrown
    ELSE IF ~validateCredentialStructure(credential)
    THEN Verdict(FALSE, "structure_validation")
    ELSE NoVerdict

verifyBeforeLookup(credential) ==
    IF credential.isNull
    THEN Verdict(FALSE, "general_error")
    ELSE IF ~validateCredentialStructure(credential)
    THEN Verdict(FALSE, "structure_validation")
    ELSE NoVerdict

\* Variant: a lookup that failed falls back to the local structure check.
verifyAfterLookup_LocalFallback(credential, lookup) ==
    IF lookup.status # "ok" THEN Verdict(validateCredentialStructure(credential), "none")
    ELSE IF lookup.revoked THEN Verdict(FALSE, "revocation_check")
    ELSE IF ~compareCredentialData(credential, lookup.vc) THEN Verdict(FALSE, "data_comparison")
    ELSE Verdict(TRUE, "none")

\* Variant: the revoked flag of the answer is not looked at.
verifyAfterLookup_NoRevocation(credential, lookup) ==
    IF lookup.status # "ok" THEN Verdict(FALSE, "issuer_node_connection")
    ELSE IF ~compareCredentialData(credential, lookup.vc) THEN Verdict(FALSE, "data_comparison")
    ELSE Verdict(TRUE, "none")

\* Variant: the data are compared before the revoked flag is looked at.
verifyAfterLookup_CompareFirst(credential, lookup) ==
    IF lookup.status # "ok" THEN Verdict(FALSE, "issuer_node_connection")
    ELSE IF ~compareCredentialData(credential, lookup.vc) THEN Verdict(FALSE, "data_comparison")
    ELSE IF lookup.revoked THEN Verdict(FALSE, "revocation_check")
    ELSE Verdict(TRUE, "none")

\* response.data of the lookup, copied as it is.
recordOf(lookup) == IF lookup.vc.proof # 0 THEN "record_with_proof" ELSE "record"

\* extractProofInfo(response.data).proofs.length: forEach pushes one summary for
\* each element of vc.proof.
extractProofInfo(lookup) == lookup.vc.proof

\* Variant: a record without a proof is not accepted.
verifyAfterLookup_RequiresProof(credential, lookup) ==
    IF lookup.status # "ok"
    THEN [Verdict(FALSE, "issuer_node_connection") EXCEPT !.details = "connection"]
    ELSE IF lookup.revoked
    THEN [Verdict(FALSE, "revocation_check") EXCEPT !.details = recordOf(lookup)]
    ELSE IF ~compareCredentialData(credential, lookup.vc) THEN Verdict(FALSE, "data_comparison")
    ELSE IF lookup.vc.proof = 0 THEN Verdict(FALSE, "proof_validation")
    ELSE [Verdict(TRUE, "none") EXCEPT !.details = "summary", !.rawData = recordOf(lookup),
                                       !.proofs = extractProofInfo(lookup)]

\* verifyCredentialWithIssuer from the answer of the lookup on.  Reading
\* response.data.revoked of a null body throws inside the inner try, whose catch
\* answers as for a failed request; compareCredentialData catches the TypeError
\* of a missing vc itself and reports a mismatch.
verifyAfterLookup(credential, lookup) ==
    IF lookup.status # "ok" \/ lookup.body = "null"
    THEN [Verdict(FALSE, "issuer_node_connection") EXCEPT !.details = "connection"]
    ELSE IF lookup.revoked
    THEN [Verdict(FALSE, "revocation_check") EXCEPT !.details = recordOf(lookup)]
    ELSE IF ~compareCredentialData(credential, lookup.vc) THEN Verdict(FALSE, "data_comparison")
    ELSE [Verdict(TRUE, "none") EXCEPT !.details = "summary", !.rawData = recordOf(lookup),
                                       !.proofs = extractProofInfo(lookup)]

\* extractZkpDataFromCredential(credential, did).state
extractZkpDataFromCredential(credential) ==
    IF credential.proof = 0 THEN "no-proof" ELSE "verified"

----------------------------------------------------------------------------
\* Issuer Node calls

\* What a call to the Issuer Node can end with: a 2xx answer, or an axios error
\* (error.code or error.response.status).  ECONNABORTED is axios' own timeout.
ErrorCodes == {"ECONNREFUSED", "401", "500"}
Outcomes == {"ok"} \cup ErrorCodes

\* The timeout option each axios call is given, in ms; 0 where none is given
\* (axios then waits without limit).
CallTimeout(call) ==
    CASE call = "listIdentities" -> 0
      [] call = "createIdentity" -> 15000
      [] call = "createCredential" -> 15000
      [] call = "publishState" -> 30000
      [] call = "fetchCredential" -> 10000
      [] call = "verifyCredentialExists" -> 5000

\* The call a request waits for at each await.
CallAt(pc) ==
    CASE pc = "listIds" -> "listIdentities"
      [] pc = "createDID" -> "createIdentity"
      [] pc = "createCred" -> "createCredential"
      [] pc = "publish" -> "publishState"
      [] pc = "fetch" -> "fetchCredential"
      [] pc = "verify" -> "verifyCredentialExists"
      [] pc = "proof" -> "verifyProof"
      [] OTHER -> "none"

AwaitPcs == {"listIds", "createDID", "createCred", "publish", "fetch", "verify"}

\* createDIDInIssuer: the identity it returns, or the error it throws.
createDIDErrorDetail(out) ==
    CASE out = "ECONNABORTED" -> "did_timeout"
      [] out = "ECONNREFUSED" -> "did_unreachable"
      [] out = "401" -> "did_unauthorized"
      [] out = "500" -> "did_server_error"
      [] OTHER -> "did_other"

\* Variant: a failed POST is answered with a locally generated DID.
createDIDInIssuer_LocalFallback(n, out) ==
    IF out = "ok"
    THEN [threw |-> FALSE, identifier |-> UserDid(n), detail |-> "none"]
    ELSE [threw |-> FALSE, identifier |-> UserDid(n + 100), detail |-> "none"]

createDIDInIssuer(n, out) ==
    IF out = "ok"
    THEN [threw |-> FALSE, identifier |-> UserDid(n), detail |-> "none"]
    ELSE [threw |-> TRUE, identifier |-> NoDid, detail |-> createDIDErrorDetail(out)]

\* The catch of createCredentialInIssuer: the message of the error it rethrows.
\* "no_issuer_did" is the Error thrown when getIssuerDID returned null.
createCredentialErrorMessage(out) ==
    CASE out = "ECONNABORTED" -> "cred_timeout"
      [] out = "ECONNREFUSED" -> "cred_unavailable"
      [] out \in {"401", "403"} -> "cred_auth"
      [] out = "400" -> "cred_invalid_data"
      [] out = "500" -> "cred_internal"
      [] OTHER -> "cred_generic"

\* Variant: a failed fetch returns no credential at all.
fetchedCredential_Null(n, out, rec) ==
    IF out = "ok" THEN VcOf(n, rec) ELSE NoCredential

\* The value createCredentialInIssuer returns after the fetch attempt.
fetchedCredential(n, out, rec) ==
    IF out = "ok" THEN VcOf(n, rec) ELSE CredentialRef(n)

\* Where createCredentialInIssuer goes after the publish attempt.
afterPublish(out) == IF out = "ok" THEN "settle" ELSE "fetch"

----------------------------------------------------------------------------
\* The query builders of zkp-proofs.js

\* A property of the conditions object: given is FALSE for undefined.
\* Booleans are written "true" and "false".
Undefined == [given |-> FALSE, value |-> "undefined"]
UndefinedNumber == [given |-> FALSE, value |-> 0]
Given(v) == [given |-> TRUE, value |-> v]

\* conditions = {}; role stands for any key the builder does not know.
NoConditions ==
    [isVerified |-> Undefined, accountState |-> Undefined, authMethod |-> Undefined,
     minAge |-> UndefinedNumber, hasEmail |-> Undefined, hasWallet |-> Undefined,
     role |-> Undefined]

\* JavaScript truthiness of a boolean or string property, and of a number.
Truthy(c) == c.given /\ c.value \notin {"false", ""}
TruthyNumber(c) == c.given /\ c.value # 0

\* Math.floor(Date.now() / 1000)
nowSeconds(nowMs) == nowMs \div 1000

\* One predicate of a query, query[key] = {[op]: value}, and a key the query
\* does not have.
Predicate(op, value) == [op |-> op, value |-> value]
Absent == [op |-> "absent", value |-> "none"]

\* const query = {}
EmptyQuery ==
    [isVerified |-> Absent, accountState |-> Absent, authMethod |-> Absent,
     registrationDate |-> Absent, email |-> Absent, walletAddress |-> Absent,
     role |-> Absent]

\* Variant: the clock is read in milliseconds.
createAccountAgeQuery_Millis(minDays, nowMs) ==
    [EmptyQuery EXCEPT
        !.registrationDate = Predicate("$lt", nowMs - (minDays * 24 * 60 * 60))]

\* createAccountAgeQuery(minDays), with Date.now() = nowMs.
createAccountAgeQuery(minDays, nowMs) ==
    [EmptyQuery EXCEPT
        !.registrationDate =
            Predicate("$lt", nowSeconds(nowMs) - (minDays * 24 * 60 * 60))]

\* Variant: the keys the builder does not know are copied with $eq.
createCombinedQuery_CopiesUnknown(conditions, nowMs) ==
    [EmptyQuery EXCEPT
        !.isVerified = IF conditions.isVerified.given
                       THEN Predicate("$eq", conditions.isVerified.value) ELSE Absent,
        !.accountState = IF Truthy(conditions.accountState)
                         THEN Predicate("$eq", conditions.accountState.value) ELSE Absent,
        !.authMethod = IF Truthy(conditions.authMethod)
                       THEN Predicate("$eq", conditions.authMethod.value) ELSE Absent,
        !.registrationDate =
            IF TruthyNumber(conditions.minAge)
            THEN Predicate("$lt", nowSeconds(nowMs) - (conditions.minAge.value * 24 * 60 * 60))
            ELSE Absent,
        !.email = IF Truthy(conditions.hasEmail) THEN Predicate("$exists", "true") ELSE Absent,
        !.walletAddress = IF Truthy(conditions.hasWallet)
                          THEN Predicate("$exists", "true") ELSE Absent,
        !.role = IF conditions.role.given
                 THEN Predicate("$eq", conditions.role.value) ELSE Absent]

\* createCombinedQuery(conditions), with Date.now() = nowMs: isVerified is
\* tested with !== undefined, every other condition for truthiness.
createCombinedQuery(conditions, nowMs) ==
    [EmptyQuery EXCEPT
        !.isVerified = IF conditions.isVerified.given
                       THEN Predicate("$eq", conditions.isVerified.value) ELSE Absent,
        !.accountState = IF Truthy(conditions.accountState)
                         THEN Predicate("$eq", conditions.accountState.value) ELSE Absent,
        !.authMethod = IF Truthy(conditions.authMethod)
                       THEN Predicate("$eq", conditions.authMethod.value) ELSE Absent,
        !.registrationDate =
            IF TruthyNumber(conditions.minAge)
            THEN Predicate("$lt", nowSeconds(nowMs) - (conditions.minAge.value * 24 * 60 * 60))
            ELSE Absent,
        !.email = IF Truthy(conditions.hasEmail) THEN Predicate("$exists", "true") ELSE Absent,
        !.walletAddress = IF Truthy(conditions.hasWallet)
                          THEN Predicate("$exists", "true") ELSE Absent]

----------------------------------------------------------------------------
\* Requests

IdleReq ==
    [kind |-> "none", pc |-> "idle", email |-> "", password |-> "", name |-> "",
     did |-> NoDid, identity |-> "none", issuerDID |-> NoDid, created |-> "none",
     credRef |-> 0, publish |-> "none", fetch |-> "none", credential |-> NoCredential,
     saved |-> FALSE, user |-> NoUser, verifyDID |-> NoDid, lookup |-> NoLookup,
     verdict |-> NoVerdict, calls |-> <<>>, resp |-> NoResp,
     settled |-> FALSE, identityState |-> "none",
     conditions |-> NoConditions, minDays |-> 0, now |-> 0, query |-> EmptyQuery]

\* A slot the server never takes a request into.
OffReq == [IdleReq EXCEPT !.pc = "off"]

Set(r, q) == req' = [req EXCEPT ![r] = q]

Send(q, pc) == [q EXCEPT !.pc = pc, !.calls = Append(@, CallAt(pc))]

Respond(q, resp) == [q EXCEPT !.pc = "done", !.resp = resp]

\* Variant: the error response carries the identity created so far.
registerFailed_ReturnsIdentity(q, details) ==
    Respond(q, [Denial(500, "Error al crear cuenta", "none", "none")
                  EXCEPT !.reason = details, !.did = q.did])

\* The error text of the catch of the handler that called the Issuer Node helpers.
handlerError(kind) ==
    IF kind = "wallet" THEN "Error en autenticacion" ELSE "Error al crear cuenta"

\* The catch of the register handler (and of wallet-auth): 500 with the error's
\* message.
registerFailed(q, details) ==
    Respond(q, [Denial(500, handlerError(q.kind), "none", "none") EXCEPT !.reason = details])

\* zkpVerificationDetails of a success body: the details of the verdict, and its
\* rawData when it is positive.
verdictInBody(verdict) ==
    ({verdict.details} \cup (IF verdict.verified THEN {verdict.rawData} ELSE {})) \ {"none"}

\* Variant: a registration that got its credential is stored as verified.
registeredUser_AlwaysVerified(q, verdict) ==
    [found |-> TRUE, password |-> hashData(q.password), did |-> q.did,
     credential |-> q.credential,
     zkpState |-> extractZkpDataFromCredential(q.credential),
     zkpVerified |-> TRUE]

\* The record register saves.
registeredUser(q, verdict) ==
    [found |-> TRUE, password |-> hashData(q.password), did |-> q.did,
     credential |-> q.credential,
     zkpState |-> extractZkpDataFromCredential(q.credential),
     zkpVerified |-> verdict.verified]

\* register from the verdict on: save the user and answer.
registerFinish(r, q, verdict) ==
    /\ saveUser(q.email, registeredUser(q, verdict))
    /\ Set(r, Respond([q EXCEPT !.verdict = verdict, !.saved = TRUE],
                      [Success(q.did, q.credential, verdict.verified)
                         EXCEPT !.carries = verdictInBody(verdict)]))

\* Variant: the verdict is logged but does not gate the response.
loginResponse_IgnoresVerdict(user, verdict) ==
    Success(user.did, user.credential, verdict.verified)

\* Variant: the denial passes the details of the verdict on.
loginResponse_ForwardsDetails(user, verdict) ==
    IF ~verdict.verified
    THEN [Denial(401, "zkp_verification_failed", verdict.stage, "none")
            EXCEPT !.carries = {verdict.details} \ {"none"}]
    ELSE [Success(user.did, user.credential, verdict.verified)
            EXCEPT !.carries = verdictInBody(verdict)]

\* login from the verdict on.  The denial carries error, details (a fixed
\* text), technicalReason (the verdict's error text), stage and credentialId;
\* the catch around the verification answers 503.
loginResponse(user, verdict) ==
    IF ~verdict.set
    THEN Denial(503, "zkp_verification_error", "none", "none")
    ELSE IF ~verdict.verified
    THEN [Denial(401, "zkp_verification_failed", verdict.stage, "none") EXCEPT !.verified = FALSE]
    ELSE [Success(user.did, user.credential, verdict.verified)
            EXCEPT !.carries = verdictInBody(verdict)]

\* Variant: login records its verdict in the stored record.
loginFinish_RecordsVerdict(r, q, verdict) ==
    /\ Set(r, Respond([q EXCEPT !.verdict = verdict], loginResponse(q.user, verdict)))
    /\ usersStore' = [usersStore EXCEPT ![ToLowerCase(q.email)].zkpVerified = verdict.verified]

loginFinish(r, q, verdict) ==
    /\ Set(r, Respond([q EXCEPT !.verdict = verdict], loginResponse(q.user, verdict)))
    /\ UNCHANGED usersStore

\* Variant: a positive verdict is recorded on the credential object passed in.
verifyReturn_MarksCredential(r, q, verdict) ==
    /\ Set(r, [q EXCEPT !.verdict = verdict, !.pc = "done",
                        !.credential.proof = IF verdict.verified THEN 1 ELSE @])
    /\ UNCHANGED usersStore

\* A direct call of verifyCredentialWithIssuer returns its verdict.
verifyReturn(r, q, verdict) ==
    /\ Set(r, [q EXCEPT !.verdict = verdict, !.pc = "done"])
    /\ UNCHANGED usersStore

\* wallet-auth after createCredentialInIssuer: res.json, nothing is saved.
walletFinish(r, q) ==
    /\ Set(r, Respond(q, Success(q.did, q.credential, FALSE)))
    /\ UNCHANGED usersStore

\* The caller of verifyCredentialWithIssuer goes on with the verdict.
afterVerify(r, q, verdict) ==
    CASE q.kind = "register" -> registerFinish(r, q, verdict)
      [] q.kind = "login" -> loginFinish(r, q, verdict)
      [] OTHER -> verifyReturn(r, q, verdict)

\* verifyCredentialWithIssuer(credential, issuerDID, ...) called by request q.
startVerify(r, q, issuerDID) ==
    LET v == verifyBeforeLookup(q.credential) IN
    IF v # NoVerdict
    THEN afterVerify(r, [q EXCEPT !.verifyDID = issuerDID], v)
    ELSE /\ Set(r, Send([q EXCEPT !.verifyDID = issuerDID], "verify"))
         /\ UNCHANGED usersStore

----------------------------------------------------------------------------
\* getIssuerDID at module load

ListOutcomes == {"ok", "empty", "ECONNREFUSED"}

\* getIssuerDID from the answer of GET /v2/identities on: the DID it returns.
issuerDIDFromList(out) == IF out = "ok" THEN IssuerOwnDid ELSE NoDid

\* ISSUER_DID after a getIssuerDID call that had to ask: assigned on a non-empty
\* list, left alone otherwise.
cacheAfterList(cached, out) == IF out = "ok" THEN issuerDIDFromList(out) ELSE cached

\* The call made at module load ends.
BootListReply(out) ==
    /\ boot = "listIds"
    /\ boot' = "done"
    /\ ISSUER_DID' = cacheAfterList(ISSUER_DID, out)
    /\ UNCHANGED <<usersStore, issuerIdentities, issuerCredentials, req, started>>

----------------------------------------------------------------------------
\* POST /api/register

\* A new request arrives and takes the first free slot.
FirstIdle(r) ==
    /\ started < MaxRequests
    /\ req[r].pc = "idle"
    /\ \A s \in Slots : s < r => req[s].pc # "idle"
    /\ started' = started + 1

Register(r, name, email, password) ==
    /\ FirstIdle(r)
    /\ LET q == [IdleReq EXCEPT !.kind = "register", !.name = name,
                                !.email = email, !.password = password]
       IN Set(r, IF name = "" \/ email = "" \/ password = ""
                 THEN Respond(q, Denial(400, "Faltan datos requeridos", "none", "none"))
                 ELSE IF userExists(email)
                 THEN Respond(q, Denial(400, "El email ya esta registrado", "none", "none"))
                 ELSE IF ~validateUserData(name, "email")
                 THEN Respond(q, Denial(400, "Datos invalidos", "none", "none"))
                 ELSE IF ~validateEmail(email)
                 THEN Respond(q, Denial(400, "Email invalido", "none", "none"))
                 ELSE Send(q, "createDID"))
    /\ UNCHANGED <<usersStore, ISSUER_DID, boot, issuerIdentities, issuerCredentials>>

\* register after createDIDInIssuer: the catch of the handler, or the start of
\* createCredentialInIssuer (getIssuerDID, then the POST when the DID is cached).
createDIDDone(q, res, out, cached) ==
    LET q1 == [q EXCEPT !.identity = IF out = "ok" THEN "ok" ELSE "failed"] IN
    IF res.threw THEN registerFailed(q1, res.detail)
    ELSE IF cached # NoDid
    THEN Send([q1 EXCEPT !.did = res.identifier, !.issuerDID = cached], "createCred")
    ELSE Send([q1 EXCEPT !.did = res.identifier], "listIds")

HandleCreateDID(r, out) ==
    /\ req[r].pc = "createDID"
    /\ out = "ok" => issuerIdentities < MaxIdentities
    /\ issuerIdentities' = IF out = "ok" THEN issuerIdentities + 1 ELSE issuerIdentities
    /\ Set(r, createDIDDone(req[r], createDIDInIssuer(issuerIdentities + 1, out), out, ISSUER_DID))
    /\ UNCHANGED <<usersStore, ISSUER_DID, boot, issuerCredentials, started>>

\* createCredentialInIssuer after getIssuerDID had to ask the Issuer Node.
listIdsDone(q, issuerDID) ==
    IF issuerDID = NoDid
    THEN registerFailed([q EXCEPT !.created = "failed"],
                        createCredentialErrorMessage("no_issuer_did"))
    ELSE Send([q EXCEPT !.issuerDID = issuerDID], "createCred")

HandleListIds(r, out) ==
    /\ req[r].pc = "listIds"
    /\ ISSUER_DID' = cacheAfterList(ISSUER_DID, out)
    /\ Set(r, listIdsDone(req[r], issuerDIDFromList(out)))
    /\ UNCHANGED <<usersStore, boot, issuerIdentities, issuerCredentials, started>>

\* The record the Issuer Node holds under a credential id, if any.
issuerRecord(n) == IF n \in 1..MaxCreds THEN issuerCredentials[n] ELSE NoIssuerCred

CredCount == Cardinality({n \in 1..MaxCreds : issuerCredentials[n].exists})

\* The answers to POST .../credentials: "empty" is a 2xx answer with an empty
\* body, which axios hands over as response.data = ''.
CredOutcomes == Outcomes \cup {"empty"}

\* response.data.id of a 2xx answer: the uuid of the record, 0 for undefined.
credentialIdOf(n, out) == IF out = "ok" THEN n ELSE 0

\* Variant: the error of the POST is swallowed and the pipeline goes on.
createCredDone_Swallowed(q, n, out) ==
    Send([q EXCEPT !.created = IF out \in {"ok", "empty"} THEN "ok" ELSE "failed",
                   !.credRef = credentialIdOf(n, out)], "publish")

\* Variant: the credential is fetched right after its creation, before any
\* publish attempt.
createCredDone_FetchFirst(q, n, out) ==
    IF out \in {"ok", "empty"}
    THEN Send([q EXCEPT !.created = "ok", !.credRef = credentialIdOf(n, out)], "fetch")
    ELSE registerFailed([q EXCEPT !.created = "failed"], createCredentialErrorMessage(out))

\* createCredentialInIssuer after the POST of the credential.
createCredDone(q, n, out) ==
    IF out \in {"ok", "empty"}
    THEN Send([q EXCEPT !.created = "ok", !.credRef = credentialIdOf(n, out)], "publish")
    ELSE registerFailed([q EXCEPT !.created = "failed"], createCredentialErrorMessage(out))

HandleCreateCred(r, out) ==
    /\ req[r].pc = "createCred"
    /\ out \in {"ok", "empty"} => CredCount < MaxCreds
    /\ issuerCredentials' =
         IF out \in {"ok", "empty"}
         THEN [issuerCredentials EXCEPT ![CredCount + 1] =
                 [exists |-> TRUE, issuer |-> req[r].issuerDID, subject |-> req[r].did,
                  revoked |-> FALSE, published |-> FALSE, proofs |-> 1]]
         ELSE issuerCredentials
    /\ Set(r, createCredDone(req[r], CredCount + 1, out))
    /\ UNCHANGED <<usersStore, ISSUER_DID, boot, issuerIdentities, started>>

\* Variant: a failed publish is rethrown to the catch of createCredentialInIssuer.
publishDone_Fatal(q, out) ==
    IF afterPublish(out) = "settle"
    THEN [q EXCEPT !.publish = "ok", !.pc = "settle"]
    ELSE registerFailed([q EXCEPT !.publish = "failed"], createCredentialErrorMessage(out))

\* Variant: a failed publish is tried once more before the fetch.
publishDone_RetryOnce(q, out) ==
    IF afterPublish(out) = "settle"
    THEN [q EXCEPT !.publish = "ok", !.pc = "settle"]
    ELSE IF q.publish = "none"
    THEN Send([q EXCEPT !.publish = "failed"], "publish")
    ELSE Send([q EXCEPT !.publish = "failed"], "fetch")

\* createCredentialInIssuer after the publish attempt: the settle delay after a
\* success, the fetch at once after a failure.
publishDone(q, out) ==
    IF afterPublish(out) = "settle"
    THEN [q EXCEPT !.publish = "ok", !.pc = "settle"]
    ELSE Send([q EXCEPT !.publish = "failed"], "fetch")

HandlePublish(r, out) ==
    /\ req[r].pc = "publish"
    /\ issuerCredentials' =
         IF out = "ok"
         THEN [n \in 1..MaxCreds |->
                 IF issuerCredentials[n].exists /\ issuerCredentials[n].issuer = req[r].issuerDID
                 THEN [issuerCredentials[n] EXCEPT !.published = TRUE]
                 ELSE issuerCredentials[n]]
         ELSE issuerCredentials
    /\ Set(r, publishDone(req[r], out))
    /\ UNCHANGED <<usersStore, ISSUER_DID, boot, issuerIdentities, started>>

\* await new Promise(resolve => setTimeout(resolve, 3000))
SettleDelay(r) ==
    /\ req[r].pc = "settle"
    /\ Set(r, Send([req[r] EXCEPT !.settled = TRUE], "fetch"))
    /\ UNCHANGED <<usersStore, ISSUER_DID, boot, issuerIdentities, issuerCredentials, started>>

\* createCredentialInIssuer returns; register hashes the password and calls
\* verifyCredentialWithIssuer(credential, did, ...).
HandleFetch(r, out) ==
    /\ req[r].pc = "fetch"
    /\ out = "ok" => req[r].credRef \in 1..MaxCreds
    /\ LET q == req[r]
           q1 == [q EXCEPT !.fetch = IF out = "ok" THEN "ok" ELSE "failed",
                           !.credential = fetchedCredential(q.credRef, out,
                                                            issuerRecord(q.credRef))]
       IN IF q1.kind = "wallet" THEN walletFinish(r, q1) ELSE startVerify(r, q1, q1.did)
    /\ UNCHANGED <<ISSUER_DID, boot, issuerIdentities, issuerCredentials, started>>

----------------------------------------------------------------------------
\* POST /api/login

\* Variant: only the credentialSubject is looked at, and only when there is a
\* credential.
credentialGate_SubjectOnly(user) ==
    IF user.credential # NoCredential /\ ~user.credential.credentialSubject.present
    THEN "INVALID_CREDENTIAL_STRUCTURE"
    ELSE "ok"

\* Variant: only the presence of a credential is tested before the verification.
credentialGate_PresenceOnly(user) ==
    IF user.credential = NoCredential \/ user.credential.isNull THEN "NO_CREDENTIAL" ELSE "ok"

\* login's check before the verification: the reason of the denial, or "ok".
credentialGate(user) ==
    IF user.credential = NoCredential \/ user.credential.isNull THEN "NO_CREDENTIAL"
    ELSE IF ~user.credential.credentialSubject.present THEN "INVALID_CREDENTIAL_STRUCTURE"
    ELSE "ok"

\* Variant: the digest is not compared before the verification.
passwordMatches_Always(user, password) == TRUE

\* user.password === hashData(password)
passwordMatches(user, password) == user.password = hashData(password)

Login(r, email, password) ==
    /\ FirstIdle(r)
    /\ LET q == [IdleReq EXCEPT !.kind = "login", !.email = email, !.password = password]
           user == getUser(email)
       IN IF email = "" \/ password = ""
          THEN Set(r, Respond(q, Denial(400, "Faltan credenciales", "none", "none")))
               /\ UNCHANGED usersStore
          ELSE IF ~user.found
          THEN Set(r, Respond(q, Denial(401, "Usuario no encontrado", "none", "none")))
               /\ UNCHANGED usersStore
          ELSE IF ~passwordMatches(user, password)
          THEN Set(r, Respond([q EXCEPT !.user = user],
                              Denial(401, "Contrasena incorrecta", "none", "none")))
               /\ UNCHANGED usersStore
          ELSE IF credentialGate(user) # "ok"
          THEN Set(r, Respond([q EXCEPT !.user = user],
                              Denial(401, "Sin credencial ZKP valida", "none",
                                     credentialGate(user))))
               /\ UNCHANGED usersStore
          ELSE startVerify(r, [q EXCEPT !.user = user, !.credential = user.credential],
                           IF user.credential.issuer # NoDid
                           THEN user.credential.issuer ELSE user.did)
    /\ UNCHANGED <<ISSUER_DID, boot, issuerIdentities, issuerCredentials>>

----------------------------------------------------------------------------
\* The answer to the verifier's lookup

\* GET /v2/identities/{issuerDID}/credentials/{credentialId} at the Issuer Node:
\* the record it holds under that identity, if any.
IssuerHolds(issuerDID, id) ==
    /\ id.prefix = ""
    /\ id.uuid \in 1..MaxCreds
    /\ issuerCredentials[id.uuid].exists
    /\ issuerCredentials[id.uuid].issuer = issuerDID

lookupAnswer(out, id) ==
    IF out = "ok"
    THEN [status |-> "ok", revoked |-> issuerCredentials[id.uuid].revoked,
          vc |-> VcOf(id.uuid, issuerCredentials[id.uuid]), body |-> "record"]
    ELSE IF out = "null_body" THEN [NoLookup EXCEPT !.status = "ok", !.body = "null"]
    ELSE IF out = "no_vc" THEN [NoLookup EXCEPT !.status = "ok", !.body = "no_vc"]
    ELSE [NoLookup EXCEPT !.status = "fail"]

HandleVerify(r, out) ==
    /\ req[r].pc = "verify"
    /\ LET q == req[r]
           credentialId == StripUrn(q.credential.id)
       IN /\ out = "ok" => IssuerHolds(q.verifyDID, credentialId)
          /\ LET lookup == lookupAnswer(out, credentialId)
                 q1 == [q EXCEPT !.lookup = lookup]
                 verdict == verifyAfterLookup(q.credential, lookup)
             IN afterVerify(r, q1, verdict)
    /\ UNCHANGED <<ISSUER_DID, boot, issuerIdentities, issuerCredentials, started>>

----------------------------------------------------------------------------
\* The Issuer Node answers, or axios gives up

CreateDIDReply(r, out) == HandleCreateDID(r, out)
ListIdsReply(r, out) == HandleListIds(r, out)
CreateCredReply(r, out) == HandleCreateCred(r, out)
PublishReply(r, out) == HandlePublish(r, out)
FetchReply(r, out) == HandleFetch(r, out)
VerifyReply(r, out) == HandleVerify(r, out)

\* The timeout option of the pending call expires: axios rejects with ECONNABORTED.
ClientTimeout(r) ==
    /\ req[r].pc \in AwaitPcs
    /\ CallTimeout(CallAt(req[r].pc)) > 0
    /\ \/ HandleCreateDID(r, "ECONNABORTED")
       \/ HandleCreateCred(r, "ECONNABORTED")
       \/ HandlePublish(r, "ECONNABORTED")
       \/ HandleFetch(r, "ECONNABORTED")
       \/ HandleVerify(r, "ECONNABORTED")

\* The issuer revokes a credential it issued.  Only the answer to a lookup shows
\* the revoked flag, so a revocation is taken when a lookup of that credential
\* is pending: any earlier one gives the same answers.
IssuerRevoke(n) ==
    /\ issuerCredentials[n].exists
    /\ \E r \in Slots : req[r].pc = "verify" /\ StripUrn(req[r].credential.id).uuid = n
    /\ ~issuerCredentials[n].revoked
    /\ issuerCredentials' = [issuerCredentials EXCEPT ![n].revoked = TRUE]
    /\ UNCHANGED <<usersStore, ISSUER_DID, boot, issuerIdentities, req, started>>

\* The response is sent; the slot serves the next request.
Retire(r) ==
    /\ req[r].pc = "done"
    /\ Set(r, IdleReq)
    /\ UNCHANGED <<usersStore, ISSUER_DID, boot, issuerIdentities, issuerCredentials, started>>

----------------------------------------------------------------------------

Init ==
    /\ usersStore = [k \in StoreKeys |-> NoUser]
    /\ ISSUER_DID = NoDid
    /\ boot = "listIds"
    /\ issuerIdentities = 0
    /\ issuerCredentials = [n \in 1..MaxCreds |-> NoIssuerCred]
    /\ req = [r \in Slots |-> IF r <= MaxInFlight THEN IdleReq ELSE OffReq]
    /\ started = 0

Next ==
    \/ \E out \in ListOutcomes : BootListReply(out)
    \/ \E r \in Slots, name \in Names, email \in Emails, password \in Passwords :
          Register(r, name, email, password)
    \/ \E r \in Slots, email \in Emails, password \in LoginPasswords : Login(r, email, password)
    \/ \E r \in Slots, out \in Outcomes : CreateDIDReply(r, out)
    \/ \E r \in Slots, out \in ListOutcomes : ListIdsReply(r, out)
    \/ \E r \in Slots, out \in CredOutcomes : CreateCredReply(r, out)
    \/ \E r \in Slots, out \in {"ok", "500"} : PublishReply(r, out)
    \/ \E r \in Slots : SettleDelay(r)
    \/ \E r \in Slots, out \in {"ok", "500"} : FetchReply(r, out)
    \/ \E r \in Slots, out \in {"ok", "500"} : VerifyReply(r, out)
    \/ \E r \in Slots : ClientTimeout(r)
    \/ \E n \in 1..MaxCreds : IssuerRevoke(n)
    \/ \E r \in Slots : Retire(r)

Spec == Init /\ [][Next]_vars

\* The timers of the process fire: a pending axios timeout and the settle delay
\* cannot be postponed forever.  Nothing makes the Issuer Node answer.
FairSpec ==
    Spec /\ \A r \in Slots : WF_vars(ClientTimeout(r)) /\ WF_vars(SettleDelay(r))

----------------------------------------------------------------------------
\* Registrations running at once

\* The request bodies: two spellings of one login key, each with its own password.
ConcInputs == {<<"ana@example.com", "s3cr3t">>, <<"Ana@Example.com", "other">>}

\* The server after getIssuerDID resolved the issuer DID at module load.
ConcInit ==
    /\ usersStore = [k \in StoreKeys |-> NoUser]
    /\ ISSUER_DID = IssuerOwnDid
    /\ boot = "done"
    /\ issuerIdentities = 0
    /\ issuerCredentials = [n \in 1..MaxCreds |-> NoIssuerCred]
    /\ req = [r \in Slots |-> IdleReq]
    /\ started = 0

ConcNext ==
    \/ \E r \in Slots, body \in ConcInputs : Register(r, "Ana Ruiz", body[1], body[2])
    \/ \E r \in Slots, out \in {"ok", "500"} : CreateDIDReply(r, out)
    \/ \E r \in Slots, out \in {"ok", "500"} : CreateCredReply(r, out)
    \/ \E r \in Slots, out \in {"ok", "500"} : PublishReply(r, out)
    \/ \E r \in Slots : SettleDelay(r)
    \/ \E r \in Slots, out \in {"ok", "500"} : FetchReply(r, out)
    \/ \E r \in Slots, out \in {"ok", "500"} : VerifyReply(r, out)

ConcSpec == ConcInit /\ [][ConcNext]_vars

----------------------------------------------------------------------------
\* Every handler of the router, running at once.  The Issuer Node creates every
\* identity and publishes every state asked for; each other call may fail.

WalletAddresses == {"", "0xA11CE"}

\* POST /api/wallet-auth: the helpers register uses, then the answer.
WalletAuth(r, walletAddress) ==
    /\ FirstIdle(r)
    /\ LET q == [IdleReq EXCEPT !.kind = "wallet", !.name = walletAddress]
       IN Set(r, IF walletAddress = ""
                 THEN Respond(q, Denial(400, "Falta wallet address", "none", "none"))
                 ELSE Send(q, "createDID"))
    /\ UNCHANGED <<usersStore, ISSUER_DID, boot, issuerIdentities, issuerCredentials>>

\* The credentials posted to /api/verify-credential: none, and the credential
\* of the first record of the Issuer Node.
PostedCredentials ==
    {NoCredential,
     VcOf(1, [NoIssuerCred EXCEPT !.exists = TRUE, !.issuer = IssuerOwnDid,
                                  !.subject = UserDid(1)])}

\* POST /api/verify-credential with the issuer DID in the body.
VerifyCredentialRequest(r, credential, issuerDID) ==
    /\ FirstIdle(r)
    /\ LET q == [IdleReq EXCEPT !.kind = "verify_credential", !.credential = credential]
       IN IF credential = NoCredential \/ ~credential.credentialSubject.present
          THEN /\ Set(r, Respond(q, Denial(400, "Credencial invalida o incompleta",
                                           "none", "none")))
               /\ UNCHANGED usersStore
          ELSE startVerify(r, q, IF credential.issuer # NoDid THEN credential.issuer
                                 ELSE issuerDID)
    /\ UNCHANGED <<ISSUER_DID, boot, issuerIdentities, issuerCredentials>>

\* POST /verify-proof: the proof is sent to the Issuer Node.
VerifyProofRequest(r, complete) ==
    /\ FirstIdle(r)
    /\ LET q == [IdleReq EXCEPT !.kind = "verify_proof"]
       IN Set(r, IF ~complete
                 THEN Respond(q, Denial(400, "Faltan campos requeridos", "none", "none"))
                 ELSE Send(q, "proof"))
    /\ UNCHANGED <<usersStore, ISSUER_DID, boot, issuerIdentities, issuerCredentials>>

\* The answer to POST /v2/proofs/verify, or the end of its 10000 ms timeout.
VerifyProofReply(r, out, verified) ==
    /\ req[r].pc = "proof"
    /\ Set(r, Respond(req[r],
                      IF out = "ok"
                      THEN Success(NoDid, NoCredential, verified)
                      ELSE Denial(503, "Issuer Node no disponible", "none", "none")))
    /\ UNCHANGED <<usersStore, ISSUER_DID, boot, issuerIdentities, issuerCredentials, started>>

RouterNext ==
    \/ \E r \in Slots, body \in ConcInputs : Register(r, "Ana Ruiz", body[1], body[2])
    \/ \E r \in Slots, body \in ConcInputs : Login(r, body[1], body[2])
    \/ \E r \in Slots, walletAddress \in WalletAddresses : WalletAuth(r, walletAddress)
    \/ \E r \in Slots, credential \in PostedCredentials :
          VerifyCredentialRequest(r, credential, IssuerOwnDid)
    \/ \E r \in Slots, complete \in BOOLEAN : VerifyProofRequest(r, complete)
    \/ \E r \in Slots, out \in {"ok", "500"} : VerifyProofReply(r, out, out = "ok")
    \/ \E r \in Slots : CreateDIDReply(r, "ok")
    \/ \E r \in Slots, out \in {"ok", "500"} : CreateCredReply(r, out)
    \/ \E r \in Slots : PublishReply(r, "ok")
    \/ \E r \in Slots : SettleDelay(r)
    \/ \E r \in Slots, out \in {"ok", "500"} : FetchReply(r, out)
    \/ \E r \in Slots, out \in {"ok", "500"} : VerifyReply(r, out)

RouterSpec == ConcInit /\ [][RouterNext]_vars

----------------------------------------------------------------------------
\* The query builders called on their own

\* The conditions objects given to createCombinedQuery.
Conditions ==
    [isVerified : {Undefined, Given("false"), Given("true")},
     accountState : {Undefined, Given(""), Given("active")},
     authMethod : {Undefined, Given("email")},
     minAge : {UndefinedNumber, Given(0), Given(30)},
     hasEmail : {Undefined, Given("false"), Given("true")},
     hasWallet : {Undefined, Given("true")},
     role : {Undefined, Given("admin")}]

\* The day counts given to createAccountAgeQuery.
DayCounts == {0, 1, 30, 365}

\* Date.now() at the call, in ms since the epoch: the start of a second, its
\* last millisecond, a time inside a second (all within 32 bits).
Clocks == {2000000000, 2000000999, 86400123}

\* One call of a builder in a run.
NoCallYet == \A s \in Slots : req[s].kind = "none"

CombinedQuery(r, conditions, nowMs) ==
    /\ FirstIdle(r) /\ NoCallYet
    /\ Set(r, [IdleReq EXCEPT !.kind = "combined_query", !.pc = "done",
                              !.conditions = conditions, !.now = nowMs,
                              !.query = createCombinedQuery(conditions, nowMs)])
    /\ UNCHANGED <<usersStore, ISSUER_DID, boot, issuerIdentities, issuerCredentials>>

AccountAgeQuery(r, minDays, nowMs) ==
    /\ FirstIdle(r) /\ NoCallYet
    /\ Set(r, [IdleReq EXCEPT !.kind = "account_age_query", !.pc = "done",
                              !.minDays = minDays, !.now = nowMs,
                              !.query = createAccountAgeQuery(minDays, nowMs)])
    /\ UNCHANGED <<usersStore, ISSUER_DID, boot, issuerIdentities, issuerCredentials>>

QueryInit ==
    /\ usersStore = [k \in StoreKeys |-> NoUser]
    /\ ISSUER_DID = NoDid
    /\ boot = "done"
    /\ issuerIdentities = 0
    /\ issuerCredentials = [n \in 1..MaxCreds |-> NoIssuerCred]
    /\ req = [r \in Slots |-> IdleReq]
    /\ started = 0

QueryNext ==
    \/ \E r \in Slots, conditions \in Conditions, nowMs \in Clocks :
          CombinedQuery(r, conditions, nowMs)
    \/ \E r \in Slots, minDays \in DayCounts, nowMs \in Clocks :
          AccountAgeQuery(r, minDays, nowMs)

QuerySpec == QueryInit /\ [][QueryNext]_vars

----------------------------------------------------------------------------
\* verifyCredentialWithIssuer called on its own

\* The credentials given to the verifier: null, and every combination of the
\* values below for the fields the verifier reads.
VerifyCredentials ==
    {NullCredential} \cup
    [id : {NoId, UrnId(1), RawId(1)},
     type : {NoType,
             [present |-> TRUE, tags |-> {"ZKPAuthCredential"}],
             [present |-> TRUE, tags |-> {"VerifiableCredential", "ZKPAuthCredential"}]},
     issuer : {NoDid, IssuerOwnDid, UserDid(1)},
     issuanceDate : BOOLEAN,
     credentialSubject : {NoSubject, [present |-> TRUE, id |-> NoDid],
                          [present |-> TRUE, id |-> UserDid(1)],
                          [present |-> TRUE, id |-> UserDid(2)]},
     proof : {0, 1},
     isNull : {FALSE},
     status : {"none"}]

\* The longest proof array of a record: a signature proof and a Merkle tree proof.
MaxProofs == 2

\* The answers to the lookup: the record, an error status, and two malformed
\* 2xx bodies.
LookupOutcomes == {"ok", "500", "null_body", "no_vc"}

VerifyIssuers == {IssuerOwnDid, UserDid(1)}

\* The records the Issuer Node may hold when the verifier is called.
VerifierRecords ==
    {NoIssuerCred} \cup
    {[exists |-> TRUE, issuer |-> IssuerOwnDid, subject |-> UserDid(1),
      revoked |-> FALSE, published |-> (n > 0), proofs |-> IF n > 0 THEN n ELSE 1] :
        n \in 0..MaxProofs}

VerifyCall(q, credential, issuerDID) ==
    [q EXCEPT !.kind = "verify", !.credential = credential, !.verifyDID = issuerDID]

\* verifyCredentialWithIssuer(credential, issuerDID, ISSUER_NODE_URL, issuerAuth)
Verify(r, credential, issuerDID) ==
    /\ FirstIdle(r)
    /\ \A s \in Slots : req[s].kind # "verify"
    /\ startVerify(r, VerifyCall(IdleReq, credential, issuerDID), issuerDID)
    /\ UNCHANGED <<ISSUER_DID, boot, issuerIdentities, issuerCredentials>>

\* The same call once more, with the arguments of call s, after it returned.
VerifyAgain(r, s) ==
    /\ FirstIdle(r)
    /\ req[s].kind = "verify" /\ req[s].pc = "done"
    /\ startVerify(r, VerifyCall(IdleReq, req[s].credential, req[s].verifyDID),
                   req[s].verifyDID)
    /\ UNCHANGED <<ISSUER_DID, boot, issuerIdentities, issuerCredentials>>

\* The timeout of the lookup (5000 ms) expires.
LookupTimeout(r) ==
    /\ CallTimeout("verifyCredentialExists") > 0
    /\ HandleVerify(r, "ECONNABORTED")

VerifierInit ==
    /\ usersStore = [k \in StoreKeys |-> NoUser]
    /\ ISSUER_DID = NoDid
    /\ boot = "done"
    /\ issuerIdentities = 0
    /\ issuerCredentials \in [1..MaxCreds -> VerifierRecords]
    /\ \A n \in 2..MaxCreds : issuerCredentials[n] = NoIssuerCred
    /\ req = [r \in Slots |-> IdleReq]
    /\ started = 0

VerifierNext ==
    \/ \E r \in Slots, credential \in VerifyCredentials, issuerDID \in VerifyIssuers :
          Verify(r, credential, issuerDID)
    \/ \E r \in Slots, s \in Slots : VerifyAgain(r, s)
    \/ \E r \in Slots, out \in LookupOutcomes : VerifyReply(r, out)
    \/ \E r \in Slots : LookupTimeout(r)
    \/ \E n \in 1..MaxCreds : IssuerRevoke(n)

VerifierSpec == VerifierInit /\ [][VerifierNext]_vars

----------------------------------------------------------------------------
\* The variant of the backend in rutas/routes.js: register with local fallbacks

\* hashData(userData.email).slice(0, 40) on the login keys used.
emailDigest(email) ==
    CASE email = "ana@example.com" -> 1
      [] email = "Ana@Example.com" -> 2
      [] OTHER -> 0

\* `did:polygonid:polygon:amoy:${hashData(email).slice(0, 40)}`
localDID(email) == <<"local", emailDigest(email)>>

\* createUserAuthCredential(did, userData) of the scheme module.
createUserAuthCredential(did) ==
    [id |-> NoId,
     type |-> [present |-> TRUE, tags |-> {"VerifiableCredential", "UserAuthCredential"}],
     issuer |-> NoDid, issuanceDate |-> TRUE,
     credentialSubject |-> [present |-> TRUE, id |-> did],
     proof |-> 0, isNull |-> FALSE, status |-> "none"]

\* The two POSTs of routes.js are given timeout: 5000, the GET of getIssuerDID none.
RoutesCallTimeout(call) ==
    CASE call = "listIdentities" -> 0
      [] call = "createIdentity" -> 5000
      [] call = "createCredential" -> 5000

\* createDIDInIssuer of routes.js: response.data of the Issuer Node, whose state
\* is the Issuer Node's own state object, or the local DID of its catch.
routes_createDIDInIssuer(n, email, out) ==
    IF out = "ok"
    THEN [identifier |-> UserDid(n), state |-> "issuer_state"]
    ELSE [identifier |-> localDID(email), state |-> "pending_issuer"]

\* Variant: the catch rethrows, as the one of the main router does.
routes_createCredentialInIssuer_Rethrows(did, n, out) ==
    IF out = "ok" THEN [threw |-> FALSE, credential |-> CredentialRef(n)]
    ELSE IF out = "empty" THEN [threw |-> FALSE, credential |-> NoCredential]
    ELSE [threw |-> TRUE, credential |-> NoCredential]

\* createCredentialInIssuer of routes.js from the end of its try on: out is the
\* answer of the POST, or "no_issuer_did" when getIssuerDID returned null.
routes_createCredentialInIssuer(did, n, out) ==
    IF out = "ok" THEN [threw |-> FALSE, credential |-> CredentialRef(n)]
    ELSE IF out = "empty" THEN [threw |-> FALSE, credential |-> NoCredential]
    ELSE [threw |-> FALSE,
          credential |-> [createUserAuthCredential(did) EXCEPT !.status = "pending_issuer"]]

\* issuerResponse.state || 'active'
stateOrActive(state) == IF state = "none" THEN "active" ELSE state

\* register of routes.js after createCredentialInIssuer: res.json, or its catch.
routesRegisterDone(q, res) ==
    IF res.threw THEN registerFailed(q, "cred_generic")
    ELSE Respond([q EXCEPT !.credential = res.credential],
                 [Success(q.did, res.credential, FALSE)
                    EXCEPT !.zkpState = stateOrActive(q.identityState)])

RoutesRegister(r, name, email, password) ==
    /\ FirstIdle(r)
    /\ LET q == [IdleReq EXCEPT !.kind = "register", !.name = name,
                                !.email = email, !.password = password]
       IN Set(r, IF name = "" \/ email = "" \/ password = ""
                 THEN Respond(q, Denial(400, "Faltan datos requeridos", "none", "none"))
                 ELSE IF ~validateUserData(name, "email")
                 THEN Respond(q, Denial(400, "Datos invalidos", "none", "none"))
                 ELSE IF ~validateEmail(email)
                 THEN Respond(q, Denial(400, "Email invalido", "none", "none"))
                 ELSE Send(q, "createDID"))
    /\ UNCHANGED <<usersStore, ISSUER_DID, boot, issuerIdentities, issuerCredentials>>

\* What a POST of routes.js can end with: axios gives up after its timeout.
RoutesOutcomes == Outcomes \cup {"ECONNABORTED"}

\* createDIDInIssuer returned; createCredentialInIssuer starts with getIssuerDID.
RoutesCreateDIDReply(r, out) ==
    /\ req[r].pc = "createDID"
    /\ out = "ECONNABORTED" => RoutesCallTimeout(CallAt(req[r].pc)) > 0
    /\ out = "ok" => issuerIdentities < MaxIdentities
    /\ issuerIdentities' = IF out = "ok" THEN issuerIdentities + 1 ELSE issuerIdentities
    /\ LET res == routes_createDIDInIssuer(issuerIdentities + 1, req[r].email, out)
           q1 == [req[r] EXCEPT !.identity = IF out = "ok" THEN "ok" ELSE "failed",
                                !.did = res.identifier, !.identityState = res.state]
       IN Set(r, IF ISSUER_DID # NoDid
                 THEN Send([q1 EXCEPT !.issuerDID = ISSUER_DID], "createCred")
                 ELSE Send(q1, "listIds"))
    /\ UNCHANGED <<usersStore, ISSUER_DID, boot, issuerCredentials, started>>

\* getIssuerDID had to ask: null makes createCredentialInIssuer throw into its
\* own catch.
RoutesListIdsReply(r, out) ==
    /\ req[r].pc = "listIds"
    /\ ISSUER_DID' = cacheAfterList(ISSUER_DID, out)
    /\ LET q == req[r]
           issuerDID == issuerDIDFromList(out)
       IN Set(r, IF issuerDID = NoDid
                 THEN routesRegisterDone([q EXCEPT !.created = "failed"],
                        routes_createCredentialInIssuer(q.did, 0, "no_issuer_did"))
                 ELSE Send([q EXCEPT !.issuerDID = issuerDID], "createCred"))
    /\ UNCHANGED <<usersStore, boot, issuerIdentities, issuerCredentials, started>>

RoutesCreateCredReply(r, out) ==
    /\ req[r].pc = "createCred"
    /\ out = "ECONNABORTED" => RoutesCallTimeout(CallAt(req[r].pc)) > 0
    /\ out \in {"ok", "empty"} => CredCount < MaxCreds
    /\ issuerCredentials' =
         IF out \in {"ok", "empty"}
         THEN [issuerCredentials EXCEPT ![CredCount + 1] =
                 [exists |-> TRUE, issuer |-> req[r].issuerDID, subject |-> req[r].did,
                  revoked |-> FALSE, published |-> FALSE, proofs |-> 1]]
         ELSE issuerCredentials
    /\ Set(r, routesRegisterDone(
                [req[r] EXCEPT !.created = IF out \in {"ok", "empty"} THEN "ok" ELSE "failed"],
                routes_createCredentialInIssuer(req[r].did, CredCount + 1, out)))
    /\ UNCHANGED <<usersStore, ISSUER_DID, boot, issuerIdentities, started>>

RoutesNext ==
    \/ \E out \in ListOutcomes : BootListReply(out)
    \/ \E r \in Slots, name \in Names, email \in Emails, password \in Passwords :
          RoutesRegister(r, name, email, password)
    \/ \E r \in Slots, out \in RoutesOutcomes : RoutesCreateDIDReply(r, out)
    \/ \E r \in Slots, out \in ListOutcomes : RoutesListIdsReply(r, out)
    \/ \E r \in Slots, out \in CredOutcomes \cup RoutesOutcomes : RoutesCreateCredReply(r, out)
    \/ \E r \in Slots : Retire(r)

RoutesSpec == Init /\ [][RoutesNext]_vars

----------------------------------------------------------------------------
\* Properties

IsRegister(r) == req[r].kind = "register"
IsLogin(r) == req[r].kind = "login"
Done(r) == req[r].pc = "done"
Called(r, call) == \E i \in 1..Len(req[r].calls) : req[r].calls[i] = call
StoredFor(r) == usersStore[ToLowerCase(req[r].email)]
IssuerIdentitySet == {UserDid(n) : n \in 1..issuerIdentities}

\* C1: a login answers success only if, in that request, the principal was found,
\* the password digest matched, the stored credential was present and the
\* verifier returned verified = true on an answer of the Issuer Node; every
\* other finished login is a denial.
C1_LoginSuccessOnlyIfVerified ==
    \A r \in Slots :
        IsLogin(r) /\ Done(r) =>
            /\ req[r].resp.success <=>
                 /\ req[r].user.found
                 /\ req[r].user.password = hashData(req[r].password)
                 /\ req[r].user.credential # NoCredential
                 /\ req[r].verdict.set
                 /\ req[r].verdict.verified
            /\ req[r].resp.success => req[r].resp.status = 200 /\ req[r].lookup.status = "ok"
            /\ ~req[r].resp.success => req[r].resp.status \in {400, 401, 500, 503}

C1_Witness ==
    \E r \in Slots : IsLogin(r) /\ Done(r) /\ req[r].resp.success /\ req[r].verdict.verified

\* C2: when the lookup at the Issuer Node fails, the verdict is verified = false
\* with stage issuer_node_connection; a verdict verified = true rests on an
\* answer of the Issuer Node to that call.
C2_LookupFailureDenies ==
    \A r \in Slots :
        req[r].verdict.set =>
            /\ req[r].lookup.status = "fail" =>
                 ~req[r].verdict.verified /\ req[r].verdict.stage = "issuer_node_connection"
            /\ req[r].verdict.verified => req[r].lookup.status = "ok"

C2_Witness ==
    \E r \in Slots :
        /\ IsLogin(r) /\ req[r].verdict.set /\ req[r].lookup.status = "fail"
        /\ validateCredentialStructure(req[r].credential)

\* C3: after a registration whose createIdentity and createCredential succeeded,
\* the stored principal has a credential.credentialSubject.id equal to the
\* identity createIdentity returned.
C3_StoredSubjectIsIdentity ==
    \A r \in Slots :
        IsRegister(r) /\ Done(r) /\ req[r].identity = "ok" /\ req[r].created = "ok" =>
            /\ StoredFor(r).found
            /\ StoredFor(r).credential.credentialSubject.present
            /\ StoredFor(r).credential.credentialSubject.id = req[r].did

\* C4: when createIdentity fails, the registration ends as a failure, with no
\* identity made up locally, no createCredential call and no write to the store.
C4_IdentityFailureIsFatal ==
    \A r \in Slots :
        IsRegister(r) /\ req[r].identity = "failed" =>
            /\ Done(r)
            /\ ~req[r].resp.success /\ req[r].resp.status = 500
            /\ req[r].did = NoDid /\ req[r].resp.did = NoDid
            /\ req[r].calls = <<"createIdentity">>
            /\ req[r].credential = NoCredential
            /\ ~req[r].saved

C4_Witness ==
    \E r \in Slots : IsRegister(r) /\ req[r].identity = "failed" /\ Done(r)

\* C5: when createCredential fails after createIdentity succeeded, the
\* registration ends as a failure: no credential is made up locally, publishState
\* and fetchCredential are not called, and nothing is written to the store.
C5_CredentialFailureIsFatal ==
    \A r \in Slots :
        IsRegister(r) /\ req[r].identity = "ok" /\ req[r].created = "failed" =>
            /\ Done(r)
            /\ ~req[r].resp.success /\ req[r].resp.status = 500
            /\ req[r].credential = NoCredential /\ req[r].resp.credential = NoCredential
            /\ ~Called(r, "publishState") /\ ~Called(r, "fetchCredential")
            /\ ~req[r].saved

C5_Witness ==
    \E r \in Slots :
        /\ IsRegister(r) /\ req[r].identity = "ok" /\ req[r].created = "failed" /\ Done(r)
        /\ Called(r, "createCredential")

\* C6 as claimed: after a registration that failed in identity or credential
\* creation, the Issuer Node holds no identity created by that registration.
C6_NoIdentityLeftAtIssuer ==
    \A r \in Slots :
        IsRegister(r) /\ Done(r) /\ (req[r].identity = "failed" \/ req[r].created = "failed") =>
            req[r].did \notin IssuerIdentitySet

\* C6 as amended: such a registration stores no principal and its response
\* carries no identity and no credential; when createIdentity had succeeded,
\* the identity it created stays at the Issuer Node.
C6_FailureLeavesIssuerIdentity ==
    \A r \in Slots :
        IsRegister(r) /\ Done(r) /\ (req[r].identity = "failed" \/ req[r].created = "failed") =>
            /\ ~req[r].resp.success
            /\ req[r].resp.did = NoDid /\ req[r].resp.credential = NoCredential
            /\ ~req[r].saved
            /\ req[r].identity = "failed" => req[r].did = NoDid
            /\ req[r].identity = "ok" => req[r].did \in IssuerIdentitySet

C6_Witness ==
    \E r \in Slots :
        /\ IsRegister(r) /\ Done(r) /\ req[r].identity = "ok" /\ req[r].created = "failed"
        /\ req[r].did \in IssuerIdentitySet

\* C7: when publishState fails after createIdentity and createCredential
\* succeeded, the registration does not fail: fetchCredential is requested and
\* the registration ends with the principal stored and a success response.
C7_PublishFailureIsNotFatal ==
    \A r \in Slots :
        IsRegister(r) /\ req[r].publish = "failed" =>
            /\ req[r].identity = "ok" /\ req[r].created = "ok"
            /\ Called(r, "fetchCredential")
            /\ req[r].pc \in {"fetch", "verify", "done"}
            /\ Done(r) => /\ req[r].resp.success /\ req[r].resp.status = 200
                          /\ req[r].saved /\ StoredFor(r).found

C7_Witness ==
    \E r \in Slots :
        /\ IsRegister(r) /\ req[r].publish = "failed" /\ Done(r)
        /\ req[r].fetch = "ok" /\ req[r].resp.credential.proof = 0

\* C8: when fetchCredential fails after createCredential succeeded, the
\* registration does not fail: the credential is the POST's answer (the
\* CredentialRef), the principal is stored with it and the response is a success.
C8_FetchFailureFallsBackToRef ==
    \A r \in Slots :
        IsRegister(r) /\ req[r].fetch = "failed" =>
            /\ req[r].created = "ok"
            /\ req[r].credential = CredentialRef(req[r].credRef)
            /\ Done(r) /\ req[r].resp.success /\ req[r].resp.status = 200
            /\ req[r].resp.credential = CredentialRef(req[r].credRef)
            /\ req[r].saved

C8_Witness ==
    \E r \in Slots :
        /\ IsRegister(r) /\ req[r].fetch = "failed" /\ Done(r)
        /\ StoredFor(r).credential = CredentialRef(req[r].credRef)

\* C9: every registration ends, whatever the Issuer Node does: each call on the
\* registration path carries a timeout, so a silent Issuer Node blocks none.
C9_RegistrationTerminates ==
    \A r \in Slots : IsRegister(r) ~> Done(r)

\* C9, the mechanism: a registration never waits for a call without a timeout.
C9_EveryCallHasTimeout ==
    \A r \in Slots :
        IsRegister(r) /\ req[r].pc \in AwaitPcs => CallTimeout(CallAt(req[r].pc)) > 0

\* C10: a login whose lookup is answered with revoked = true is denied with
\* stage revocation_check, the password having matched.
C10_RevokedIsDenied ==
    \A r \in Slots :
        IsLogin(r) /\ req[r].lookup.status = "ok" /\ req[r].lookup.revoked =>
            /\ req[r].user.password = hashData(req[r].password)
            /\ Done(r)
            /\ ~req[r].resp.success /\ req[r].resp.status = 401
            /\ req[r].resp.stage = "revocation_check"

C10_Witness ==
    \E r \in Slots :
        /\ IsLogin(r) /\ Done(r) /\ req[r].lookup.status = "ok" /\ req[r].lookup.revoked
        /\ req[r].user.password = hashData(req[r].password)
        /\ validateCredentialStructure(req[r].credential)

IsVerify(r) == req[r].kind = "verify"
Returned(r) == req[r].verdict.set

\* The Issuer Node answered the lookup with a body that can be read.
AnsweredRecord(l) == l.status = "ok" /\ l.body # "null"

\* C12: the verifier applies structure check, lookup, revocation check and data
\* comparison in that order and stops at the first that fails: a credential
\* failing the structure check causes no call to the Issuer Node, and a record
\* both revoked and mismatching is reported as revocation_check.
C12_StagesInOrder ==
    \A r \in Slots :
        IsVerify(r) /\ Returned(r) /\ ~req[r].credential.isNull =>
            LET c == req[r].credential
                l == req[r].lookup
                v == req[r].verdict
            IN /\ ~validateCredentialStructure(c) =>
                    v.stage = "structure_validation" /\ req[r].calls = <<>>
               /\ validateCredentialStructure(c) =>
                    req[r].calls = <<"verifyCredentialExists">> /\ l.status # "none"
               /\ validateCredentialStructure(c) /\ l.status = "fail" =>
                    v.stage = "issuer_node_connection"
               /\ validateCredentialStructure(c) /\ AnsweredRecord(l) /\ l.revoked =>
                    v.stage = "revocation_check"
               /\ validateCredentialStructure(c) /\ AnsweredRecord(l) /\ ~l.revoked
                     /\ ~compareCredentialData(c, l.vc) =>
                    v.stage = "data_comparison"
               /\ v.verified <=> /\ validateCredentialStructure(c)
                                 /\ AnsweredRecord(l) /\ ~l.revoked
                                 /\ compareCredentialData(c, l.vc)

C12_Witness ==
    \E r \in Slots :
        /\ IsVerify(r) /\ Returned(r)
        /\ req[r].lookup.status = "ok" /\ req[r].lookup.revoked
        /\ ~compareCredentialData(req[r].credential, req[r].lookup.vc)
        /\ req[r].verdict.stage = "revocation_check"

\* C13: a credential whose type does not include "VerifiableCredential" gets
\* verified = false with stage structure_validation, whatever its other fields
\* are and whatever the Issuer Node holds: the Issuer Node is not even asked.
C13_TypeWithoutVCFailsStructure ==
    \A r \in Slots :
        /\ IsVerify(r) /\ ~req[r].credential.isNull
        /\ "VerifiableCredential" \notin req[r].credential.type.tags
        => /\ Returned(r)
           /\ req[r].verdict = Verdict(FALSE, "structure_validation")
           /\ req[r].calls = <<>>

C13_Witness ==
    \E r \in Slots :
        /\ IsVerify(r) /\ Returned(r)
        /\ req[r].credential =
             [VcOf(1, issuerCredentials[1]) EXCEPT !.type.tags = {"ZKPAuthCredential"}]
        /\ IssuerHolds(req[r].verifyDID, StripUrn(req[r].credential.id))
        /\ req[r].verdict.stage = "structure_validation"

\* C14 as claimed: the verifier called with a null credential returns
\* verified = false with stage structure_validation.
C14_NullIsStructureFailure ==
    \A r \in Slots :
        IsVerify(r) /\ Returned(r) /\ req[r].credential.isNull =>
            ~req[r].verdict.verified /\ req[r].verdict.stage = "structure_validation"

\* C15: when the Issuer Node answers with a record that is not revoked, the
\* verdict is verified = true exactly when id, issuer and credentialSubject.id of
\* the local credential equal those of the record; otherwise it is verified =
\* false with stage data_comparison, which login answers with a denial carrying
\* that stage.
C15_VerifiedIffDataMatch ==
    \A r \in Slots :
        Returned(r) /\ AnsweredRecord(req[r].lookup) /\ ~req[r].lookup.revoked =>
            LET c == req[r].credential
                vc == req[r].lookup.vc
                v == req[r].verdict
                same == /\ c.id = vc.id
                        /\ c.issuer = vc.issuer
                        /\ c.credentialSubject.id = vc.credentialSubject.id
                answer == loginResponse([NoUser EXCEPT !.found = TRUE, !.credential = c], v)
            IN /\ v.verified <=> same
               /\ ~same => /\ v.stage = "data_comparison"
                           /\ ~answer.success /\ answer.status = 401
                           /\ answer.stage = "data_comparison"
               /\ IsLogin(r) /\ ~same => Done(r) /\ req[r].resp.stage = "data_comparison"

C15_Witness ==
    \E r \in Slots :
        /\ IsVerify(r) /\ Returned(r)
        /\ req[r].lookup.status = "ok" /\ ~req[r].lookup.revoked
        /\ req[r].credential.id = req[r].lookup.vc.id
        /\ req[r].credential.issuer = req[r].lookup.vc.issuer
        /\ req[r].credential.credentialSubject.id # req[r].lookup.vc.credentialSubject.id
        /\ req[r].verdict.stage = "data_comparison"

\* C16, on the states: two calls of the verifier with the same credential and the
\* same issuer identity that got the same answer of the Issuer Node returned the
\* same verdict.
C16_SameCallSameVerdict ==
    \A r \in Slots, s \in Slots :
        /\ IsVerify(r) /\ IsVerify(s) /\ Returned(r) /\ Returned(s)
        /\ req[r].credential = req[s].credential /\ req[r].verifyDID = req[s].verifyDID
        /\ req[r].lookup = req[s].lookup
        => req[r].verdict = req[s].verdict

\* C16, on the steps: a call of the verifier leaves its credential, the users
\* store, the cached issuer DID and the records of the Issuer Node as they were.
C16_VerifyChangesNothing ==
    /\ \A r \in Slots :
          IsVerify(r) => req'[r].kind = "verify" /\ req'[r].credential = req[r].credential
    /\ usersStore' = usersStore
    /\ ISSUER_DID' = ISSUER_DID
    /\ req' # req => issuerCredentials' = issuerCredentials

C17_ProoflessNeverVerified ==
    \A r \in Slots :
        /\ Returned(r) /\ req[r].credential.proof = 0 => ~req[r].verdict.verified
        /\ IsLogin(r) /\ Done(r) /\ req[r].user.credential.proof = 0 => ~req[r].resp.success

\* The request in slot r is a register request that arrives in this step.
Arrives(r) == req[r].pc = "idle" /\ req'[r].kind = "register"
\* The register request in slot r saves its record in this step.
Saves(r) == IsRegister(r) /\ ~req[r].saved /\ req'[r].saved
SameKey(e1, e2) == ToLowerCase(e1) = ToLowerCase(e2)

C18_RejectedAtArrival ==
    \A r \in Slots :
        /\ Arrives(r)
        /\ \/ req'[r].name = "" \/ req'[r].email = "" \/ req'[r].password = ""
           \/ ~validateEmail(req'[r].email)
           \/ \E k \in StoreKeys : SameKey(k, req'[r].email) /\ usersStore[k].found
        => /\ req'[r].pc = "done"
           /\ ~req'[r].resp.success /\ req'[r].resp.status = 400
           /\ req'[r].calls = <<>>
           /\ usersStore' = usersStore

\* C18: a register request with a missing or malformed field, or with a login
\* key that is in the store up to letter case, is answered 400 in the step it
\* arrives in: it makes no call to the Issuer Node and leaves the store as it was.
C18_InvalidOrDuplicateRejectedFirst == [][C18_RejectedAtArrival]_vars

C18_Witness ==
    \E r \in Slots :
        /\ IsRegister(r) /\ Done(r)
        /\ req[r].email # ToLowerCase(req[r].email)
        /\ StoredFor(r).found /\ ~req[r].saved
        /\ req[r].resp.status = 400 /\ req[r].resp.error = "El email ya esta registrado"
        /\ req[r].calls = <<>>

C19_OneEntryPerKey ==
    \A k1 \in StoreKeys, k2 \in StoreKeys :
        SameKey(k1, k2) /\ usersStore[k1].found /\ usersStore[k2].found => k1 = k2

C19_SavedIsFoundUnderAnyCase ==
    \A r \in Slots :
        Saves(r) =>
            \A e \in Emails :
                SameKey(e, req'[r].email) =>
                    /\ getUser(e)' = registeredUser(req'[r], req'[r].verdict)
                    /\ userExists(e)'

\* C19: the store compares keys without regard to letter case: after a save
\* under k, getUser and userExists under every case variant of k give that
\* record, and a save under a case variant of k replaces the entry of k.
C19_StoreIsCaseInsensitive ==
    [](C19_OneEntryPerKey) /\ [][C19_SavedIsFoundUnderAnyCase]_vars

C19_Witness ==
    \E r \in Slots, s \in Slots :
        /\ IsRegister(r) /\ IsRegister(s) /\ req[r].saved /\ req[s].saved
        /\ req[r].email # req[s].email /\ SameKey(req[r].email, req[s].email)
        /\ getUser(req[s].email) = registeredUser(req[r], req[r].verdict)
        /\ getUser(req[s].email) # registeredUser(req[s], req[s].verdict)
        /\ Cardinality({k \in StoreKeys : usersStore[k].found}) = 1

C20_SaveReplacesWholeRecord ==
    /\ \A r \in Slots :
          Saves(r) =>
              /\ usersStore'[ToLowerCase(req'[r].email)] =
                    registeredUser(req'[r], req'[r].verdict)
              /\ \A k \in StoreKeys :
                    k # ToLowerCase(req'[r].email) => usersStore'[k] = usersStore[k]
    /\ (\A r \in Slots : ~Saves(r)) => usersStore' = usersStore

\* C20: whatever the interleaving of register requests, several for one key
\* that all passed the existence check included, each save puts the whole record
\* of its own registration under the key and nothing else writes the store: the
\* entry of a key is the record of the save that ran last for it, never a mix of
\* two registrations.
C20_LastWriteWins == [][C20_SaveReplacesWholeRecord]_vars

C20_Witness ==
    \E r \in Slots, s \in Slots :
        /\ IsRegister(r) /\ IsRegister(s) /\ req[r].saved /\ req[s].saved
        /\ SameKey(req[r].email, req[s].email)
        /\ req[r].did # req[s].did /\ req[r].password # req[s].password
        /\ req[r].credential # req[s].credential
        /\ StoredFor(r) = registeredUser(req[r], req[r].verdict)

\* The getIssuerDID call of request r assigns ISSUER_DID in this step: its GET
\* was answered with a non-empty list.
AssignsCache(r) == req[r].pc = "listIds" /\ req'[r].pc = "createCred"

\* C21 as claimed: whatever the interleaving of the getIssuerDID calls, the one
\* at module load included, ISSUER_DID is assigned at most once in a run: no
\* call assigns it when it already holds a DID.
C21_CacheAssignedAtMostOnce ==
    [][\A r \in Slots : AssignsCache(r) => ISSUER_DID = NoDid]_vars

\* C22 as claimed: when the issuer DID cannot be resolved (the list call fails
\* or lists nothing), createCredentialInIssuer fails with the message of an
\* unavailable Issuer Node, not the generic one.
C22_UnresolvedIssuerIsUnavailable ==
    \A r \in Slots :
        /\ IsRegister(r) /\ Done(r)
        /\ Called(r, "listIdentities") /\ req[r].issuerDID = NoDid
        => /\ ~req[r].resp.success
           /\ req[r].resp.reason = createCredentialErrorMessage("ECONNREFUSED")

\* C23 as claimed: no fetch of the credential is requested before the settle
\* delay after the publish attempt has elapsed, whether the publish succeeded or
\* failed.
C23_FetchOnlyAfterSettleDelay ==
    \A r \in Slots :
        IsRegister(r) /\ Called(r, "fetchCredential") => req[r].settled

\* C24: no denial of login, whatever its cause, carries the stored password
\* digest, the stored credential or the proofs of the issuer's record.
C24_DenialLeaksNothing ==
    \A r \in Slots :
        IsLogin(r) /\ Done(r) /\ ~req[r].resp.success =>
            /\ req[r].resp.carries \cap {"digest", "record", "record_with_proof"} = {}
            /\ req[r].resp.credential = NoCredential

C24_Witness ==
    \E r \in Slots :
        /\ IsLogin(r) /\ Done(r) /\ ~req[r].resp.success
        /\ req[r].verdict.details = "record_with_proof"
        /\ req[r].resp.stage = "revocation_check"
        /\ req[r].resp.carries = {}

\* C25 as claimed: a positive verdict shows the proof only as the redacted
\* summary: none of its fields holds the proofs of the issuer's record as sent.
C25_PositiveVerdictIsRedacted ==
    \A r \in Slots :
        Returned(r) /\ req[r].verdict.verified =>
            /\ req[r].verdict.details # "record_with_proof"
            /\ req[r].verdict.rawData # "record_with_proof"

\* C26: in routes.js a registration that passed the validations and is answered
\* is answered with success: a failed createIdentity gives the local DID with
\* state pending_issuer, and a credential that could not be created at the
\* Issuer Node gives the local credential of that DID with status pending_issuer.
C26_RoutesRegisterFallsBack ==
    \A r \in Slots :
        IsRegister(r) /\ Done(r) /\ Called(r, "createIdentity") =>
            /\ req[r].resp.success
            /\ req[r].identity = "failed" =>
                  /\ req[r].resp.did = localDID(req[r].email)
                  /\ req[r].resp.zkpState = "pending_issuer"
            /\ req[r].created = "failed" =>
                  /\ req[r].resp.credential.status = "pending_issuer"
                  /\ req[r].resp.credential.credentialSubject.id = req[r].resp.did

C26_Witness ==
    \E r \in Slots :
        /\ IsRegister(r) /\ Done(r)
        /\ req[r].identity = "failed" /\ req[r].created = "failed"
        /\ req[r].resp.success
        /\ req[r].resp.zkpState = "pending_issuer"
        /\ req[r].resp.credential.status = "pending_issuer"

\* The place of each Issuer Node call in a registration.
CallRank(call) ==
    CASE call = "createIdentity" -> 1
      [] call = "listIdentities" -> 2
      [] call = "createCredential" -> 3
      [] call = "publishState" -> 4
      [] call = "fetchCredential" -> 5
      [] call = "verifyCredentialExists" -> 6
      [] OTHER -> 0

\* C27: the calls of a registration are made in the order createIdentity,
\* createCredential, publishState, fetchCredential; createCredential only
\* after createIdentity succeeded, publishState only after createCredential
\* succeeded, fetchCredential only after the publish attempt ended; and a
\* registration that reached the Issuer Node ends either issued (the fetch was
\* attempted, the answer is a success) or failed (an error answer, nothing saved).
C27_IssuanceOrder ==
    \A r \in Slots :
        IsRegister(r) =>
            /\ \A i, j \in 1..Len(req[r].calls) :
                   i < j => CallRank(req[r].calls[i]) < CallRank(req[r].calls[j])
            /\ Called(r, "createCredential") => req[r].identity = "ok"
            /\ Called(r, "publishState") => req[r].created = "ok"
            /\ Called(r, "fetchCredential") => req[r].publish \in {"ok", "failed"}
            /\ Done(r) /\ Called(r, "createIdentity") =>
                  \/ req[r].fetch # "none" /\ req[r].resp.success
                  \/ /\ ~req[r].resp.success /\ ~req[r].saved
                     /\ req[r].identity = "failed" \/ req[r].created = "failed"

C27_Witness ==
    \E r \in Slots :
        /\ IsRegister(r) /\ Done(r) /\ req[r].resp.success
        /\ req[r].publish = "failed" /\ req[r].fetch = "ok"
        /\ Called(r, "createIdentity") /\ Called(r, "createCredential")
        /\ Called(r, "publishState") /\ Called(r, "fetchCredential")

\* C28: no request asks the Issuer Node for the same operation twice: each of
\* createIdentity, createCredential, publishState, fetchCredential and the
\* credential lookup of a verification occurs at most once among its calls.
C28_NoRetries ==
    \A r \in Slots :
        \A call \in {CallAt(pc) : pc \in AwaitPcs} :
            Cardinality({i \in 1..Len(req[r].calls) : req[r].calls[i] = call}) <= 1

C28_Witness ==
    \E r \in Slots :
        /\ IsRegister(r) /\ Done(r)
        /\ req[r].publish = "failed" /\ req[r].lookup.status = "fail"
        /\ Len(req[r].calls) >= 5

\* C29: a registration whose createIdentity and createCredential succeeded is
\* answered with success and stored, and both the stored zkpVerified and the
\* returned verified equal the verified value of its verdict.
C29_RegisterStoresVerdict ==
    \A r \in Slots :
        IsRegister(r) /\ Done(r) /\ req[r].identity = "ok" /\ req[r].created = "ok" =>
            /\ req[r].resp.success /\ req[r].saved
            /\ req[r].verdict.set
            /\ req[r].resp.verified = req[r].verdict.verified
            /\ StoredFor(r).found
            /\ StoredFor(r).zkpVerified = req[r].verdict.verified

C29_Witness ==
    \E r \in Slots :
        /\ IsRegister(r) /\ Done(r) /\ req[r].identity = "ok" /\ req[r].created = "ok"
        /\ req[r].fetch = "ok"
        /\ req[r].verdict.set /\ ~req[r].verdict.verified
        /\ req[r].resp.success /\ StoredFor(r).found /\ ~StoredFor(r).zkpVerified

\* C30 as claimed: the lookup of register's verification is made under the
\* issuer identity under which createCredential created the credential.
C30_RegisterLooksUpUnderIssuer ==
    \A r \in Slots :
        IsRegister(r) /\ Called(r, "verifyCredentialExists") =>
            req[r].verifyDID = req[r].issuerDID

\* C31: a verification whose structure check, lookup, revocation check and data
\* comparison pass returns verified = true whether or not the issuer's record
\* carries a proof; the summary of a proof-less record has no proofs.
C31_ProofNotRequired ==
    \A r \in Slots :
        /\ IsVerify(r) /\ Returned(r)
        /\ validateCredentialStructure(req[r].credential)
        /\ req[r].lookup.status = "ok" /\ ~req[r].lookup.revoked
        /\ compareCredentialData(req[r].credential, req[r].lookup.vc)
        => /\ req[r].verdict.verified
           /\ req[r].lookup.vc.proof = 0 => req[r].verdict.proofs = 0

C31_Witness ==
    \E r \in Slots :
        /\ IsVerify(r) /\ Returned(r) /\ req[r].verdict.verified
        /\ req[r].lookup.status = "ok" /\ req[r].lookup.vc.proof = 0
        /\ req[r].credential.proof = 1

\* C32 as claimed: the summary of a positive verdict describes exactly one
\* proof, the first, also when the record carries several.
C32_SummaryOfFirstProofOnly ==
    \A r \in Slots :
        IsVerify(r) /\ Returned(r) /\ req[r].verdict.verified /\ req[r].lookup.vc.proof > 0
            => req[r].verdict.proofs = 1

\* C33 as claimed: a stored record whose zkpData.state is 'verified' has
\* zkpVerified = true.
C33_VerifiedStateImpliesVerdict ==
    \A k \in StoreKeys :
        usersStore[k].found /\ usersStore[k].zkpState = "verified" => usersStore[k].zkpVerified

\* C34 as claimed: a stored record is never modified or removed.
C34_StoredRecordNeverChanges ==
    [][\A k \in StoreKeys : usersStore[k].found => usersStore'[k] = usersStore[k]]_vars

\* C34, amended: the store changes only in a step in which a register request
\* that got its credential saves its record, and only under that request's
\* key; login, wallet-auth, verify-credential and verify-proof leave it
\* unchanged and no record is ever removed.  A stored record is replaced only
\* by the save of another registration of the same key.
C34_OnlyIssuedRegisterWrites ==
    [][/\ usersStore' # usersStore =>
            \E r \in Slots :
                /\ Saves(r) /\ req'[r].created = "ok" /\ req'[r].fetch # "none"
                /\ \A k \in StoreKeys :
                      k # ToLowerCase(req[r].email) => usersStore'[k] = usersStore[k]
       /\ \A k \in StoreKeys : usersStore[k].found => usersStore'[k].found]_vars

C34_Witness ==
    \E r, s \in Slots :
        /\ IsRegister(r) /\ req[r].saved
        /\ IsLogin(s) /\ Done(s) /\ req[s].verdict.set /\ SameKey(req[r].email, req[s].email)
        /\ StoredFor(r) = registeredUser(req[r], req[r].verdict)

\* C35: a login asks the Issuer Node only after the principal was found, the
\* digest matched and the stored credential has a credentialSubject; a login
\* for an unknown key or with a wrong password is denied without any call.
C35_LoginChecksBeforeIssuer ==
    \A r \in Slots :
        IsLogin(r) =>
            /\ req[r].calls # <<>> =>
                  /\ req[r].user.found
                  /\ req[r].user.password = hashData(req[r].password)
                  /\ req[r].user.credential.credentialSubject.present
            /\ Done(r) /\ (~req[r].user.found
                            \/ req[r].user.password # hashData(req[r].password)) =>
                  /\ ~req[r].resp.success /\ req[r].resp.status \in {400, 401}
                  /\ req[r].calls = <<>>

C35_Witness ==
    \E r \in Slots :
        /\ IsLogin(r) /\ Done(r) /\ req[r].user.found
        /\ req[r].user.password # hashData(req[r].password)
        /\ req[r].user.credential.credentialSubject.present
        /\ req[r].resp.status = 401 /\ req[r].calls = <<>>

\* The bare answer of the credential POST, stored when the fetch failed.
BareRef(credential) ==
    /\ credential # NoCredential /\ ~credential.isNull
    /\ ~credential.credentialSubject.present

LoginArrives(r) == req[r].pc = "idle" /\ req'[r].kind = "login"

C37_VerifierIsTotal ==
    \A r \in Slots :
        IsVerify(r) /\ Done(r) =>
            /\ req[r].verdict.set /\ req[r].verdict # Thrown
            /\ req[r].verdict.verified \in BOOLEAN
            /\ req[r].verdict.verified => req[r].verdict.stage = "none"

C37_Witness ==
    \E r \in Slots :
        /\ IsVerify(r) /\ Done(r) /\ req[r].lookup.body = "null"
        /\ req[r].verdict.set /\ ~req[r].verdict.verified

\* C38 as claimed: when the lookup returned a response, a negative verdict has
\* stage revocation_check or data_comparison; issuer_node_connection is left to
\* the lookups that failed.
C38_ConnectionStageOnlyOnFailure ==
    \A r \in Slots :
        IsVerify(r) /\ Returned(r) /\ req[r].lookup.status = "ok" /\ ~req[r].verdict.verified
            => req[r].verdict.stage \in {"revocation_check", "data_comparison"}

QueryKeys(query) == {k \in DOMAIN query : query[k].op # "absent"}
KnownKeys ==
    {"isVerified", "accountState", "authMethod", "registrationDate", "email", "walletAddress"}
IsCombined(r) == req[r].kind = "combined_query"

\* C39 as claimed: each known key is in the result exactly when its condition
\* is supplied.
C39_KeyPresentIffSupplied ==
    \A r \in Slots :
        IsCombined(r) =>
            LET c == req[r].conditions
                keys == QueryKeys(req[r].query)
            IN /\ "isVerified" \in keys <=> c.isVerified.given
               /\ "accountState" \in keys <=> c.accountState.given
               /\ "authMethod" \in keys <=> c.authMethod.given
               /\ "registrationDate" \in keys <=> c.minAge.given
               /\ "email" \in keys <=> c.hasEmail.given
               /\ "walletAddress" \in keys <=> c.hasWallet.given

\* C39, amended: the result has only known keys, one predicate for each;
\* isVerified is there exactly when the condition is not undefined, every
\* other key exactly when its condition is supplied with a truthy value; and
\* condition sets that differ only in unknown keys give the same query.
C39_CombinedQueryKeys ==
    \A r \in Slots :
        IsCombined(r) =>
            LET c == req[r].conditions
                keys == QueryKeys(req[r].query)
            IN /\ keys \subseteq KnownKeys
               /\ "isVerified" \in keys <=> c.isVerified.given
               /\ "accountState" \in keys <=> Truthy(c.accountState)
               /\ "authMethod" \in keys <=> Truthy(c.authMethod)
               /\ "registrationDate" \in keys <=> TruthyNumber(c.minAge)
               /\ "email" \in keys <=> Truthy(c.hasEmail)
               /\ "walletAddress" \in keys <=> Truthy(c.hasWallet)
               /\ \A c2 \in Conditions :
                     [c2 EXCEPT !.role = c.role] = c =>
                         createCombinedQuery(c2, req[r].now) = req[r].query

C39_Witness ==
    \E r \in Slots :
        /\ IsCombined(r) /\ req[r].conditions.role.given
        /\ req[r].conditions.minAge = Given(30) /\ req[r].conditions.hasEmail = Given("false")
        /\ QueryKeys(req[r].query) = {"registrationDate"}

\* C40: the account-age query has exactly one predicate, registrationDate $lt
\* T, where T is the clock in whole seconds minus minDays * 86400.
C40_AccountAgeQuery ==
    \A r \in Slots :
        req[r].kind = "account_age_query" =>
            /\ QueryKeys(req[r].query) = {"registrationDate"}
            /\ req[r].query.registrationDate.op = "$lt"
            /\ req[r].query.registrationDate.value
                  = (req[r].now - (req[r].now % 1000)) \div 1000 - req[r].minDays * 86400

C40_Witness ==
    \E r \in Slots :
        /\ req[r].kind = "account_age_query" /\ req[r].minDays = 30
        /\ req[r].now = 2000000999
        /\ req[r].query.registrationDate = Predicate("$lt", 2000000 - 30 * 86400)

====
